---- MODULE Spec2Model ----
(***************************************************************************)
(* A model of examples/clients/python_client.py: the HushApiClient facade  *)
(* over a requests.Session mounted with an urllib3 Retry policy, the       *)
(* thread-pool batch example and the retry_request helper.                 *)
(*                                                                         *)
(* Three specifications share the definitions below:                       *)
(*   Spec       one sequential caller ("main") using every operation;      *)
(*   ConcSpec   the worker threads of batch_request_example on one client; *)
(*   RetrySpec  one run of retry_example.retry_request.                    *)
(***************************************************************************)
EXTENDS Integers, Sequences, FiniteSets, TLC

(***************************************************************************)
(* Python values, as far as the client looks at them.                      *)
(***************************************************************************)
None == [ty |-> "none"]
Str(s) == [ty |-> "str", v |-> s]
PyInt(n) == [ty |-> "int", v |-> n]
Dict(f) == [ty |-> "dict", v |-> f]

\* Python truthiness: None, "", 0 and {} are false.
Truthy(x) ==
    CASE x.ty = "none" -> FALSE
      [] x.ty = "str"  -> x.v # ""
      [] x.ty = "int"  -> x.v # 0
      [] x.ty = "dict" -> DOMAIN x.v # {}

(***************************************************************************)
(* Inputs.                                                                 *)
(***************************************************************************)
\* The constructor calls of the examples: HushApiClient() and
\* HushApiClient(base_url="http://localhost:8080", timeout=10).  No base_url
\* ends in "/", so rstrip('/') leaves it as given.
DefaultTimeout == 30
AdvancedTimeout == 10
ConstructorArgs ==
    { [base_url |-> "http://localhost:8080", timeout |-> DefaultTimeout],
      [base_url |-> "http://localhost:8080", timeout |-> AdvancedTimeout] }
TokenInputs == {None, Str(""), Str("tokA"), Str("tokB")}
EmptyDict == Dict(<<>>)
NewUser == Dict(("name" :> "zhangsan") @@ ("email" :> "zhangsan@example.com"))
UserPayloads == {EmptyDict, NewUser}
DataInputs == {None, EmptyDict, NewUser}
HeaderInputs ==
    { None, EmptyDict,
      Dict("X-Request-ID" :> "12345"),
      Dict("Authorization" :> "Basic abc") }
Methods == {"GET", "POST", "PUT", "PATCH", "OPTIONS"}

\* What the server may answer: a status and a body text.
Statuses == {101, 200, 304, 401, 403, 429, 500, 502, 503, 504}
JsonOk == "{\"status\":\"ok\"}"
BodyTexts == {JsonOk, "plain text"}
ServerHeaders == ("Server" :> "hush")

Threads == {"main", "w1", "w2"}
Workers == {"w1", "w2"}

VARIABLES
    base_url, timeout, token, retry_policy,   \* the client (self.*)
    last_set,        \* history: argument of the latest set_auth_token call
    pc,              \* per thread: "idle", "sending", "got", "done"
    call,            \* per thread: the operation and arguments of _make_request
    request,         \* per thread: the locals url and request_headers
    adapter,         \* per thread: the Retry object of the request in progress
    wire,            \* per thread, history: what the transport saw
    response,        \* per frame: what session.request returned or raised
    result,          \* per thread: what the operation returned or raised
    futures,         \* per worker: the (name, result) pair of safe_request
    rr               \* the frame of retry_request

vars == << base_url, timeout, token, retry_policy, last_set, pc, call, request,
           adapter, wire, response, result, futures, rr >>

clientVars == << base_url, timeout, token, retry_policy, last_set >>
frameVars == << pc, call, request, adapter, wire, response, result >>

(***************************************************************************)
(* HushApiClient.__init__                                                  *)
(***************************************************************************)
RetryTotal == 3
\* Variant: 401 retried as well.
StatusForcelist401 == {401, 429, 500, 502, 503, 504}
StatusForcelist == {429, 500, 502, 503, 504}
\* urllib3's Retry.DEFAULT_ALLOWED_METHODS: the methods a status retry and a
\* read-error retry apply to (the client does not pass allowed_methods).
AllowedMethods == {"GET", "PUT", "OPTIONS", "HEAD", "DELETE", "TRACE"}
\* Variant: a policy without status_forcelist.
RetryStrategyNoForcelist ==
    [total |-> RetryTotal, status_forcelist |-> {},
     allowed_methods |-> AllowedMethods, raise_on_status |-> TRUE]
RetryStrategy ==
    [total |-> RetryTotal, status_forcelist |-> StatusForcelist,
     allowed_methods |-> AllowedMethods, raise_on_status |-> TRUE]

NoCall == [op |-> "none"]
NoRequest == [url |-> "", headers |-> <<>>]
NoAdapter == [total |-> 0]
NoOutcome == [kind |-> "none"]
NoWire == [attempts |-> 0, all_transient |-> TRUE, last |-> NoOutcome,
           sent |-> NoOutcome, delivered |-> NoOutcome]
NoResult == [kind |-> "none"]
NoRetry == [pc |-> "off"]

IdleFrames ==
    /\ pc = [t \in Threads |-> "idle"]
    /\ call = [t \in Threads |-> NoCall]
    /\ request = [t \in Threads |-> NoRequest]
    /\ adapter = [t \in Threads |-> NoAdapter]
    /\ wire = [t \in Threads |-> NoWire]
    /\ response = [t \in Threads |-> NoOutcome]
    /\ result = [t \in Threads |-> NoResult]
    /\ futures = [t \in Workers |-> NoResult]

Init ==
    /\ \E a \in ConstructorArgs : base_url = a.base_url /\ timeout = a.timeout
    /\ token = None
    /\ retry_policy = RetryStrategy
    /\ last_set = None
    /\ IdleFrames
    /\ rr = NoRetry

(***************************************************************************)
(* set_auth_token and _get_headers                                         *)
(***************************************************************************)
\* Variant: an empty token is rejected.
StoredTokenValidated(tok) == IF Truthy(tok) THEN tok ELSE None
StoredToken(tok) == tok

\* The sequential caller sets the token between two requests.
SetAuthToken(tok) ==
    /\ pc["main"] = "idle"
    /\ token' = StoredToken(tok)
    /\ last_set' = tok
    /\ UNCHANGED << base_url, timeout, retry_policy, frameVars, futures, rr >>

DefaultHeaders ==
    ("Content-Type" :> "application/json")
        @@ ("User-Agent" :> "HushApiClient/1.0.0 (Python)")

\* dict.update: the entries of g replace those of f.
Update(f, g) == g @@ f

\* Variant: `if self.token is not None` in place of `if self.token`.
GetHeadersAlways(tok, additional_headers) ==
    LET withAuth ==
            IF tok.ty = "str"
            THEN Update(DefaultHeaders, "Authorization" :> ("Bearer " \o tok.v))
            ELSE DefaultHeaders
    IN  IF Truthy(additional_headers)
        THEN Update(withAuth, additional_headers.v)
        ELSE withAuth

GetHeaders(tok, additional_headers) ==
    LET withAuth ==
            IF Truthy(tok)
            THEN Update(DefaultHeaders, "Authorization" :> ("Bearer " \o tok.v))
            ELSE DefaultHeaders
    IN  IF Truthy(additional_headers)
        THEN Update(withAuth, additional_headers.v)
        ELSE withAuth

(***************************************************************************)
(* _make_request: lines 142-145, the call and its locals                   *)
(***************************************************************************)
MakeRequest(op, method, endpoint, data, headers) ==
    [op |-> op, headers |-> headers, method |-> method,
     endpoint |-> endpoint, data |-> data]

\* The frame holding the locals of thread t's call of _make_request.
\* Variant: the response kept in one place shared by all calls.
SharedFrame(t) == "w1"
FrameOf(t) == t

Url(base, endpoint) == base \o endpoint

Call(t, c) ==
    /\ pc[t] = "idle"
    /\ pc' = [pc EXCEPT ![t] = "sending"]
    /\ call' = [call EXCEPT ![t] = c]
    /\ request' = [request EXCEPT ![t] =
            [url |-> Url(base_url, c.endpoint),
             headers |-> GetHeaders(token, c.headers)]]
    /\ adapter' = [adapter EXCEPT ![t] = [total |-> retry_policy.total]]
    /\ wire' = [wire EXCEPT ![t] = NoWire]
    /\ result' = [result EXCEPT ![t] = NoResult]
    /\ UNCHANGED << clientVars, response, futures, rr >>

(***************************************************************************)
(* The facade operations, lines 188-219                                    *)
(***************************************************************************)
HealthCheck(t) ==
    Call(t, MakeRequest("health_check", "GET", "/health", None, None))

GetUserInfo(t) ==
    Call(t, MakeRequest("get_user_info", "GET", "/user", None, None))

GetUsers(t) ==
    Call(t, MakeRequest("get_users", "GET", "/api/users", None, None))

CreateUser(t, user_data) ==
    Call(t, MakeRequest("create_user", "POST", "/api/users", user_data, None))

GetAdminDashboard(t) ==
    Call(t, MakeRequest("get_admin_dashboard", "GET", "/admin/dashboard",
                        None, None))

CorsHeaders(method) ==
    Dict(("Access-Control-Request-Method" :> method)
            @@ ("Access-Control-Request-Headers" :> "Content-Type, Authorization"))

CorsPreflightCheck(t, endpoint, method) ==
    Call(t, MakeRequest("cors_preflight_check", "OPTIONS", endpoint, None,
                        CorsHeaders(method)))

\* A direct call of _make_request, as cors_example and advanced_usage_example do.
DirectRequest(t, method, endpoint, data, headers) ==
    Call(t, MakeRequest("_make_request", method, endpoint, data, headers))

(***************************************************************************)
(* session.request, lines 149-156: one attempt of the mounted HTTPAdapter  *)
(* under the Retry policy of lines 79-84.  The server sends no Retry-After *)
(* header and no redirect.                                                 *)
(***************************************************************************)
Resp(status, text) ==
    [headers |-> ServerHeaders, kind |-> "response", status |-> status,
     text |-> text]
ConnectError == [kind |-> "connect_error"]
ReadError == [kind |-> "read_error"]
Responses == {Resp(s, b) : s \in Statuses, b \in BodyTexts}
ServerOutcomes == Responses \cup {ConnectError, ReadError}
Raised(exc) == [kind |-> "exception", exc |-> exc]

\* Variant: `data is not None` in place of `data`.
JsonBodyNotNone(method, data) ==
    IF data # None /\ method \in {"POST", "PUT", "PATCH"} THEN data ELSE None
JsonBody(method, data) ==
    IF Truthy(data) /\ method \in {"POST", "PUT", "PATCH"} THEN data ELSE None

SentRequest(t) ==
    [timeout |-> timeout, url |-> request[t].url,
     headers |-> request[t].headers, method |-> call[t].method,
     json |-> JsonBody(call[t].method, call[t].data)]

\* Retry.is_retry for a response without Retry-After.
IsRetry(policy, method, status) ==
    method \in policy.allowed_methods /\ status \in policy.status_forcelist

\* The statuses the specification calls transient.
TransientStatuses == {429, 500, 502, 503, 504}
IsTransient(o) == o.kind = "response" /\ o.status \in TransientStatuses

\* What urlopen does with the outcome o of one attempt when `total` retries
\* are left: send again, hand the response back, or raise.
Urlopen(policy, method, total, o) ==
    LET again == IF total - 1 < 0
                 THEN [exc |-> IF o.kind = "response" THEN "RetryError"
                               ELSE "ConnectionError",
                       act |-> "raise"]
                 ELSE [total |-> total - 1, act |-> "retry"]
    IN  CASE o.kind = "response" ->
                IF IsRetry(policy, method, o.status)
                THEN IF again.act = "raise" /\ ~policy.raise_on_status
                     THEN [act |-> "return"]
                     ELSE again
                ELSE [act |-> "return"]
          [] o.kind = "connect_error" -> again
          [] o.kind = "read_error" ->
                IF method \in policy.allowed_methods THEN again
                ELSE [exc |-> "ReadTimeout", act |-> "raise"]

Attempt(t, outcomes) ==
    /\ pc[t] = "sending"
    /\ \E o \in outcomes :
        LET d == Urlopen(retry_policy, call[t].method, adapter[t].total, o)
            got == CASE d.act = "retry" -> NoOutcome
                     [] d.act = "return" -> o
                     [] d.act = "raise" -> Raised(d.exc)
        IN  /\ wire' = [wire EXCEPT ![t] =
                    [attempts |-> @.attempts + 1,
                     all_transient |-> @.all_transient /\ IsTransient(o),
                     last |-> o,
                     sent |-> SentRequest(t),
                     delivered |-> got]]
            /\ IF d.act = "retry"
               THEN /\ adapter' = [adapter EXCEPT ![t] = [total |-> d.total]]
                    /\ UNCHANGED << pc, response >>
               ELSE /\ pc' = [pc EXCEPT ![t] = "got"]
                    /\ response' = [response EXCEPT ![FrameOf(t)] = got]
                    /\ UNCHANGED adapter
    /\ UNCHANGED << clientVars, call, request, result, futures, rr >>

(***************************************************************************)
(* _make_request, lines 158-182, and the facade's return                   *)
(***************************************************************************)
JsonTable == (JsonOk :> Dict("status" :> "ok"))

\* response.json(), falling back to response.text on a JSONDecodeError.
\* Variant: the body never parsed.
DecodeBodyText(text) == Str(text)
DecodeBody(text) ==
    IF text \in DOMAIN JsonTable THEN JsonTable[text] ELSE Str(text)

\* requests' Response.ok: raise_for_status raises for 400..599 only.
Ok(status) == ~(400 <= status /\ status < 600)

ApiResponse(r) ==
    [ty |-> "ApiResponse", headers |-> r.headers,
     data |-> DecodeBody(r.text), status_code |-> r.status]

HushApiError(message, status_code, response_data) ==
    [status_code |-> status_code, message |-> message,
     response_data |-> response_data]

Returned(v) == [kind |-> "return", value |-> v]
Raise(e) == [kind |-> "raise", error |-> e]

FacadeReturn(op, api_response) ==
    IF op \in {"cors_preflight_check", "_make_request"}
    THEN api_response
    ELSE api_response.data

\* The outcome of the operation c when session.request returned or raised r.
ResultOf(c, r) ==
    IF r.kind = "exception"
    THEN Raise(HushApiError(<< "network error", r.exc >>, None, None))
    ELSE IF Ok(r.status)
         THEN Returned(FacadeReturn(c.op, ApiResponse(r)))
         ELSE Raise(HushApiError(<< "HTTP", r.status >>, PyInt(r.status),
                                 DecodeBody(r.text)))

Finish(t) ==
    /\ pc[t] = "got"
    /\ pc' = [pc EXCEPT ![t] = "done"]
    /\ result' = [result EXCEPT ![t] = ResultOf(call[t], response[FrameOf(t)])]
    /\ UNCHANGED << clientVars, call, request, adapter, wire, response,
                    futures, rr >>

ResetFrame(t) ==
    /\ pc' = [pc EXCEPT ![t] = "idle"]
    /\ call' = [call EXCEPT ![t] = NoCall]
    /\ request' = [request EXCEPT ![t] = NoRequest]
    /\ adapter' = [adapter EXCEPT ![t] = NoAdapter]
    /\ wire' = [wire EXCEPT ![t] = NoWire]
    /\ response' = [response EXCEPT ![FrameOf(t)] = NoOutcome]
    /\ result' = [result EXCEPT ![t] = NoResult]

\* The caller has the value or has handled the error; the frame is gone.
Return(t) ==
    /\ pc[t] = "done"
    /\ ResetFrame(t)
    /\ UNCHANGED << clientVars, futures, rr >>

(***************************************************************************)
(* The sequential caller                                                   *)
(***************************************************************************)
Next ==
    \/ \E tok \in TokenInputs : SetAuthToken(tok)
    \/ HealthCheck("main")
    \/ GetUserInfo("main")
    \/ GetUsers("main")
    \/ \E d \in UserPayloads : CreateUser("main", d)
    \/ GetAdminDashboard("main")
    \/ \E m \in {"GET", "POST"} : CorsPreflightCheck("main", "/api/users", m)
    \/ \E m \in Methods, d \in DataInputs, h \in HeaderInputs :
            DirectRequest("main", m, "/health", d, h)
    \/ Attempt("main", ServerOutcomes)
    \/ Finish("main")
    \/ Return("main")

Spec == Init /\ [][Next]_vars

(***************************************************************************)
(* batch_request_example, lines 403-426: pool workers run safe_request on  *)
(* health_check, get_user_info and get_users of one client, in parallel.   *)
(***************************************************************************)
BatchOutcomes ==
    {Resp(s, b) : s \in {200, 401, 503}, b \in BodyTexts} \cup {ConnectError}

\* safe_request: (name, func()) or (name, "error: ...").
SafeRequest(t) ==
    /\ pc[t] = "done"
    /\ pc' = [pc EXCEPT ![t] = "exited"]
    /\ futures' = [futures EXCEPT ![t] =
            [name |-> call[t].op,
             value |-> IF result[t].kind = "return"
                       THEN result[t].value
                       ELSE Str(<< "error", result[t].error.message >>)]]
    /\ UNCHANGED << clientVars, call, request, adapter, wire, response,
                    result, rr >>

ConcNext ==
    \E t \in Workers :
        \/ HealthCheck(t)
        \/ GetUserInfo(t)
        \/ GetUsers(t)
        \/ Attempt(t, BatchOutcomes)
        \/ Finish(t)
        \/ SafeRequest(t)

ConcSpec == Init /\ [][ConcNext]_vars

(***************************************************************************)
(* retry_example.retry_request, lines 439-454.  Delays are counted in      *)
(* half seconds: delay=0.5 is 1, delay=1.0 is 2.                           *)
(***************************************************************************)
MaxRetriesInput == 4
DelayInputs == {1, 2}

\* What func() may do: the outcomes of client.get_users(), or an exception
\* that is no HushApiError.
OtherException == Raise([exception |-> "Exception"])
FuncOutcomes ==
    { ResultOf(MakeRequest("get_users", "GET", "/api/users", None, None), r) :
        r \in { Resp(200, JsonOk), Resp(401, "plain text"), Resp(403, JsonOk),
                Raised("RetryError") } }
    \cup {OtherException}

IsHushApiError(o) == o.kind = "raise" /\ "status_code" \in DOMAIN o.error

\* Variant: 2 ** attempt.
WaitTimeNoShift(delay, attempt) == delay * 2 ^ attempt
WaitTime(delay, attempt) == delay * 2 ^ (attempt - 1)

RetryInit ==
    /\ \E a \in ConstructorArgs : base_url = a.base_url /\ timeout = a.timeout
    /\ token = None
    /\ retry_policy = RetryStrategy
    /\ last_set = None
    /\ IdleFrames
    /\ \E m \in 0 .. MaxRetriesInput, d \in DelayInputs :
            rr = [pc |-> "loop", last |-> NoResult, delay |-> d,
                  attempt |-> 1, max_retries |-> m, calls |-> 0,
                  waits |-> << >>, out |-> NoResult]

\* for attempt in range(1, max_retries + 1); falling off the loop returns None.
RetryLoop ==
    /\ rr.pc = "loop"
    /\ rr' = IF rr.attempt <= rr.max_retries
             THEN [rr EXCEPT !.pc = "calling"]
             ELSE [rr EXCEPT !.pc = "finished", !.out = Returned(None)]
    /\ UNCHANGED << clientVars, frameVars, futures >>

RetryCall ==
    /\ rr.pc = "calling"
    /\ \E o \in FuncOutcomes :
        rr' = IF ~IsHushApiError(o)
              THEN [rr EXCEPT !.pc = "finished", !.calls = @ + 1, !.out = o]
              ELSE IF rr.attempt = rr.max_retries
                   THEN [rr EXCEPT !.pc = "finished", !.calls = @ + 1,
                                   !.last = o, !.out = o]
                   ELSE [rr EXCEPT !.pc = "sleeping", !.calls = @ + 1,
                                   !.last = o,
                                   !.waits = Append(@, WaitTime(rr.delay,
                                                                rr.attempt))]
    /\ UNCHANGED << clientVars, frameVars, futures >>

\* time.sleep(wait_time) returns and the loop goes on.
RetrySleep ==
    /\ rr.pc = "sleeping"
    /\ rr' = [rr EXCEPT !.pc = "loop", !.attempt = @ + 1]
    /\ UNCHANGED << clientVars, frameVars, futures >>

RetryNext == RetryLoop \/ RetryCall \/ RetrySleep

RetrySpec == RetryInit /\ [][RetryNext]_vars /\ WF_vars(RetryNext)

(***************************************************************************)
(* Vocabulary of the properties                                            *)
(***************************************************************************)
Is2xx(status) == 200 <= status /\ status <= 299

\* The decoded body as the specification words it: the parsed JSON value if
\* the body parses as JSON, otherwise the raw text.
ExpectedDecoded(text) ==
    CASE text = JsonOk -> Dict("status" :> "ok")
      [] OTHER -> Str(text)

BodyOperations ==
    {"health_check", "get_user_info", "get_users", "create_user",
     "get_admin_dashboard"}
FacadeOperations == BodyOperations \cup {"cors_preflight_check"}

\* The operation of the main thread has completed on an HTTP response.
DoneOnResponse ==
    pc["main"] = "done" /\ wire["main"].last.kind = "response"

IsApiError(res, status, text) ==
    /\ res.kind = "raise"
    /\ res.error.status_code = PyInt(status)
    /\ res.error.response_data = ExpectedDecoded(text)

IsTransportError(res) ==
    /\ res.kind = "raise"
    /\ res.error.status_code = None
    /\ res.error.response_data = None

(***************************************************************************)
(* C1                                                                      *)
(***************************************************************************)
\* C1 (as claimed): on a 2xx response every facade operation, the CORS
\* preflight included, returns exactly the decoded body, not wrapped.
C1_Original ==
    (DoneOnResponse /\ Is2xx(wire["main"].last.status)
        /\ call["main"].op \in FacadeOperations)
    => result["main"] = Returned(ExpectedDecoded(wire["main"].last.text))

\* C1 (amended): on a 2xx response health_check, get_user_info, get_users,
\* create_user and get_admin_dashboard return exactly the decoded body, and
\* cors_preflight_check returns the ApiResponse envelope (status code,
\* decoded body, response headers) of that response.
C1_DecodedBodyReturned ==
    (DoneOnResponse /\ Is2xx(wire["main"].last.status)) =>
        LET r == wire["main"].last
            op == call["main"].op
        IN  /\ op \in BodyOperations =>
                result["main"] = Returned(ExpectedDecoded(r.text))
            /\ op = "cors_preflight_check" =>
                result["main"] =
                    Returned([ty |-> "ApiResponse", headers |-> r.headers,
                              data |-> ExpectedDecoded(r.text),
                              status_code |-> r.status])

C1_Witness ==
    /\ DoneOnResponse
    /\ wire["main"].last = Resp(200, JsonOk)
    /\ call["main"].op = "health_check"
    /\ result["main"] = Returned(Dict("status" :> "ok"))

(***************************************************************************)
(* C2                                                                      *)
(***************************************************************************)
\* C2: an operation returns a value if and only if the final response has a
\* 2xx status; for every other status it raises an API error carrying that
\* status and the decoded body.
C2_SuccessIff2xx ==
    DoneOnResponse =>
        LET r == wire["main"].last
        IN  /\ result["main"].kind = "return" <=> Is2xx(r.status)
            /\ ~Is2xx(r.status) => IsApiError(result["main"], r.status, r.text)

(***************************************************************************)
(* C3                                                                      *)
(***************************************************************************)
\* Every attempt of the completed operation was answered by a transient status.
OnlyTransientAnswers ==
    /\ pc["main"] = "done"
    /\ wire["main"].attempts >= 1
    /\ wire["main"].all_transient

\* C3 (as claimed): whatever the method, when the server keeps answering
\* with a transient status the transport sees max_retries = 3 attempts
\* before the error is surfaced.
C3_Original ==
    OnlyTransientAnswers =>
        /\ wire["main"].attempts = RetryTotal
        /\ result["main"].kind = "raise"

\* C3 (amended): a transient status is answered by re-sending only for the
\* methods urllib3 retries (GET, OPTIONS, PUT, ...): when the server keeps
\* answering with a transient status the transport sees 1 + 3 = 4 attempts
\* before an error is surfaced; a POST or PATCH request (create_user) is
\* never re-sent on a status and its error is surfaced after 1 attempt.  No
\* request is sent more than 4 times.
C3_RetryAttempts ==
    /\ wire["main"].attempts <= RetryTotal + 1
    /\ pc["main"] = "sending" => wire["main"].attempts <= RetryTotal
    /\ OnlyTransientAnswers =>
        /\ result["main"].kind = "raise"
        /\ wire["main"].attempts =
            IF call["main"].method \in {"GET", "PUT", "OPTIONS", "HEAD",
                                        "DELETE", "TRACE"}
            THEN RetryTotal + 1
            ELSE 1

C3_Witness ==
    /\ OnlyTransientAnswers
    /\ call["main"].op = "health_check"
    /\ wire["main"].attempts = RetryTotal + 1
    /\ result["main"].kind = "raise"

(***************************************************************************)
(* C4                                                                      *)
(***************************************************************************)
\* C4: a transport error (status_code None, response_data None) is surfaced
\* only when the last attempt obtained no HTTP response, and an error
\* surfaced after the last attempt received a response carries that
\* response's status code and decoded body.
C4_ErrorKinds ==
    (pc["main"] = "done" /\ result["main"].kind = "raise") =>
        LET r == wire["main"].last
        IN  /\ IsTransportError(result["main"]) => r.kind # "response"
            /\ r.kind = "response" => IsApiError(result["main"], r.status, r.text)

(***************************************************************************)
(* C5                                                                      *)
(***************************************************************************)
HasHeader(h, name) == name \in DOMAIN h

\* The main thread's request has been seen by the transport.
MainSent == pc["main"] # "idle" /\ wire["main"].attempts >= 1

\* C5 (as claimed): after set_auth_token(t), for every token value t and
\* whatever headers the caller adds, the request carries Authorization:
\* Bearer t; with the token never set or cleared it carries no Authorization.
C5_Original ==
    MainSent =>
        LET h == wire["main"].sent.headers
        IN  IF last_set.ty = "str"
            THEN HasHeader(h, "Authorization")
                    /\ h["Authorization"] = "Bearer " \o last_set.v
            ELSE ~HasHeader(h, "Authorization")

CallerSetsAuthorization ==
    /\ call["main"].headers.ty = "dict"
    /\ HasHeader(call["main"].headers.v, "Authorization")

\* C5 (amended): a request issued after set_auth_token(t) with a non-empty t
\* and before the next set_auth_token call carries Authorization: Bearer t,
\* and one issued with the token never set, or set to None or to the empty
\* string, carries no Authorization header, both provided the caller's
\* additional headers hold no Authorization entry; a caller-supplied
\* Authorization entry is sent as given, in place of the token's.
C5_BearerHeader ==
    MainSent =>
        LET h == wire["main"].sent.headers
        IN  IF CallerSetsAuthorization
            THEN HasHeader(h, "Authorization")
                    /\ h["Authorization"] = call["main"].headers.v["Authorization"]
            ELSE IF last_set.ty = "str" /\ last_set.v # ""
                 THEN HasHeader(h, "Authorization")
                        /\ h["Authorization"] = "Bearer " \o last_set.v
                 ELSE ~HasHeader(h, "Authorization")

C5_Witness ==
    /\ MainSent
    /\ last_set = Str("tokB")
    /\ call["main"].op = "get_users"
    /\ wire["main"].sent.headers["Authorization"] = "Bearer tokB"

(***************************************************************************)
(* C6                                                                      *)
(***************************************************************************)
\* C6: a 401 answer is never followed by another attempt, and the operation
\* raises an API error with status_code 401 and the decoded body of that
\* response; it returns no value.
C6_Unauthorized ==
    (wire["main"].last.kind = "response" /\ wire["main"].last.status = 401) =>
        /\ pc["main"] \in {"got", "done"}
        /\ response["main"] = wire["main"].last
        /\ pc["main"] = "done" =>
            IsApiError(result["main"], 401, wire["main"].last.text)

C6_Witness ==
    /\ pc["main"] = "done"
    /\ call["main"].op = "get_users"
    /\ wire["main"].attempts = 1
    /\ wire["main"].last = Resp(401, "plain text")
    /\ result["main"].error.status_code = PyInt(401)
    /\ result["main"].error.response_data = Str("plain text")

(***************************************************************************)
(* C7                                                                      *)
(***************************************************************************)
PathOf(op) ==
    CASE op = "health_check" -> "/health"
      [] op = "get_user_info" -> "/user"
      [] op = "get_users" -> "/api/users"

\* C7: under every interleaving of the workers, each call sends its own
\* request (its own URL and headers) and completes with the result or error
\* of the response delivered to it, whatever the other call does.
C7_OwnResult ==
    \A t \in Workers :
        /\ wire[t].attempts >= 1 =>
            /\ wire[t].sent.method = "GET"
            /\ wire[t].sent.url = base_url \o PathOf(call[t].op)
            /\ wire[t].sent.headers = DefaultHeaders
        /\ pc[t] \in {"got", "done", "exited"} =>
            response[t] = wire[t].delivered
        /\ pc[t] \in {"done", "exited"} =>
            result[t] = ResultOf(call[t], wire[t].delivered)
        /\ pc[t] = "exited" =>
            /\ futures[t].name = call[t].op
            /\ result[t].kind = "return" => futures[t].value = result[t].value

C7_Witness ==
    /\ pc["w1"] = "done" /\ pc["w2"] = "done"
    /\ call["w1"].op = "health_check" /\ call["w2"].op = "get_users"
    /\ result["w1"] = Returned(Dict("status" :> "ok"))
    /\ result["w2"].kind = "raise"
    /\ result["w2"].error.status_code = PyInt(401)

(***************************************************************************)
(* C8                                                                      *)
(***************************************************************************)
\* C8: base_url, timeout and the retry policy never change; the token is
\* always the value last given to set_auth_token, whatever it is; and no
\* step of a request changes the token.
C8_Frame ==
    [][ /\ base_url' = base_url
        /\ timeout' = timeout
        /\ retry_policy' = retry_policy
        /\ token' = last_set'
        /\ frameVars' # frameVars => token' = token ]_vars

C8_Witness ==
    /\ token = Str("")
    /\ last_set = Str("")
    /\ pc["main"] = "done"
    /\ result["main"].kind = "raise"

(***************************************************************************)
(* C9                                                                      *)
(***************************************************************************)
RECURSIVE Pow2(_)
Pow2(n) == IF n = 0 THEN 1 ELSE 2 * Pow2(n - 1)

RetryFinished == rr.pc = "finished"

C9_Safety ==
    rr.max_retries >= 1 =>
        /\ rr.calls <= rr.max_retries
        /\ Len(rr.waits) <= rr.max_retries - 1
        /\ \A k \in 1 .. Len(rr.waits) : rr.waits[k] = rr.delay * Pow2(k - 1)
        /\ rr.pc \in {"loop", "calling"} =>
            /\ rr.calls = rr.attempt - 1
            /\ Len(rr.waits) = rr.calls
        /\ rr.pc = "sleeping" =>
            /\ rr.calls = rr.attempt
            /\ rr.calls < rr.max_retries
            /\ Len(rr.waits) = rr.calls
        /\ RetryFinished =>
            /\ rr.calls = rr.attempt
            /\ Len(rr.waits) = rr.calls - 1
            /\ rr.out.kind \in {"raise", "return"}
            /\ IsHushApiError(rr.out) =>
                rr.calls = rr.max_retries /\ rr.out = rr.last

\* C9: retry_request calls the function at most max_retries times, returns
\* the first result without a further call, waits delay * 2^(k-1) after the
\* k-th failure (k < max_retries), re-raises the last HushApiError after the
\* max_retries-th, and for max_retries >= 1 it terminates.
C9_RetryRequest == [] C9_Safety /\ <> RetryFinished

C9_Witness ==
    /\ RetryFinished
    /\ rr.max_retries = 3
    /\ rr.delay = 1
    /\ rr.calls = 3
    /\ rr.waits = << 1, 2 >>
    /\ IsHushApiError(rr.out)

(***************************************************************************)
(* C10                                                                     *)
(***************************************************************************)
\* C10: the request carries a JSON body, the data given, exactly when the
\* method is POST, PUT or PATCH and the data is non-empty; GET and OPTIONS
\* requests never carry one, and create_user with an empty payload sends
\* POST /api/users without a body.
C10_JsonBody ==
    MainSent =>
        LET q == wire["main"].sent
            c == call["main"]
        IN  /\ q.json # None <=>
                (q.method \in {"POST", "PUT", "PATCH"}
                    /\ c.data \notin {None, EmptyDict})
            /\ q.json # None => q.json = c.data
            /\ q.method = c.method
            /\ c.op = "create_user" =>
                q.method = "POST" /\ q.url = base_url \o "/api/users"

C10_Witness ==
    /\ MainSent
    /\ call["main"].op = "create_user"
    /\ call["main"].data = EmptyDict
    /\ wire["main"].sent.method = "POST"
    /\ wire["main"].sent.json = None

====
